---- MODULE Spec2Model ----
(***************************************************************************)
(* Model of src/ui/renderer.py: the Renderer of a dice-driven board game.  *)
(* The renderer is a per-frame view: draw_board, draw_players and draw_ui  *)
(* read snapshots owned by collaborators (Board, Player, AnimationManager, *)
(* GameLogic, config_manager) and emit draw commands on the screen.        *)
(* The screen is modelled as the sequence of draw commands of the last     *)
(* call, `calls` as the sequence of position look-ups made on the          *)
(* collaborators, `ret` as the value the call returned and `raised` as     *)
(* whether the call ended with an exception.                               *)
(* Python list indices are 0-based: list index i is sequence index i + 1.  *)
(***************************************************************************)
EXTENDS Integers, Sequences, FiniteSets

VARIABLES board, players, animation_manager, game_logic, nickname,
          screen, calls, ret, raised, last

vars == <<board, players, animation_manager, game_logic, nickname,
          screen, calls, ret, raised, last>>

inputs == <<board, players, animation_manager, game_logic, nickname>>

----------------------------------------------------------------------------
(* Bounds of the model *)

MaxCells == 2

MaxPlayers == 3

MaxId == 1

MaxUIPlayers == 2

----------------------------------------------------------------------------
(* models.constants, imported at renderer.py:6-10. The module that sets the  *)
(* values is outside src/ui/renderer.py; the renderer only needs them to be *)
(* positive sizes, and HOME_COLORS to be indexed by the owners 0..3.         *)

CELL_SIZE == 60

WINDOW_WIDTH == 800

WINDOW_HEIGHT == 600

HomeColorNames == <<"HOME_COLOR_0", "HOME_COLOR_1", "HOME_COLOR_2", "HOME_COLOR_3">>

HOME_COLORS == [o \in 0..(Len(HomeColorNames) - 1) |-> HomeColorNames[o + 1]]

----------------------------------------------------------------------------
(* Values shared by the three operations *)

None == <<>>

NoAttr == "<no attribute>"

----------------------------------------------------------------------------
(* draw_board *)

Owners == 0..Len(HomeColorNames)

CellPositions == {<<40, 40>>, <<101, 40>>}

\* a cell that is no home cell carries no owner the renderer reads: owner 0 or
\* the value beyond HOME_COLORS stand for it
Cells == [home : {TRUE}, reward : BOOLEAN, penalty : BOOLEAN,
          owner : Owners, pos : CellPositions]
         \cup [home : {FALSE}, reward : BOOLEAN, penalty : BOOLEAN,
                owner : {0, Len(HomeColorNames)}, pos : CellPositions]

SeqsUpTo(S, n) == UNION {[1..k -> S] : k \in 0..n}

Boards == SeqsUpTo(Cells, MaxCells)

is_home_cell(cell) == cell.home

is_reward_cell(cell) == cell.reward

is_penalty_cell(cell) == cell.penalty

\* renderer.py:55-56: HOME_COLORS[cell.owner] raises when owner is no index
color_raises(cell) == is_home_cell(cell) /\ cell.owner \notin DOMAIN HOME_COLORS

select_fill_color(cell) ==
    IF is_home_cell(cell) THEN HOME_COLORS[cell.owner]
    ELSE IF is_reward_cell(cell) THEN "REWARD_COLOR"
    ELSE IF is_penalty_cell(cell) THEN "DISCARD_COLOR"
    ELSE "GRAY"

select_type_text(cell) ==
    IF is_home_cell(cell) THEN [k |-> "H", n |-> cell.owner + 1]
    ELSE IF is_reward_cell(cell) THEN [k |-> "reward", n |-> 0]
    ELSE IF is_penalty_cell(cell) THEN [k |-> "discard", n |-> 0]
    ELSE [k |-> "plain", n |-> 0]

cell_rect(x, y) == <<x - (CELL_SIZE \div 2), y - (CELL_SIZE \div 2), CELL_SIZE, CELL_SIZE>>

\* the four draw commands of one loop iteration, renderer.py:64-87
render_cell(i, cell) ==
    LET x == cell.pos[1]
        y == cell.pos[2]
    IN << [op |-> "rect", color |-> select_fill_color(cell), rect |-> cell_rect(x, y), width |-> 0],
          [op |-> "rect", color |-> "BLACK", rect |-> cell_rect(x, y), width |-> 2],
          [op |-> "text", text |-> [k |-> "index", n |-> i], color |-> "BLACK", at |-> <<x, y - 20>>],
          [op |-> "text", text |-> select_type_text(cell), color |-> "BLACK", at |-> <<x, y + 10>>] >>

RECURSIVE board_loop(_, _, _)
\* the for loop of renderer.py:51, from list index i with `out` drawn so far
board_loop(b, i, out) ==
    IF i >= Len(b) THEN [screen |-> out, raised |-> FALSE]
    ELSE IF color_raises(b[i + 1]) THEN [screen |-> out, raised |-> TRUE]
    ELSE board_loop(b, i + 1, out \o render_cell(i, b[i + 1]))

draw_board(b) == board_loop(b, 0, << [op |-> "fill", color |-> "WHITE"] >>)

----------------------------------------------------------------------------
(* draw_players *)

\* the board the tokens stand on: two plain cells
PlayBoard == << [home |-> FALSE, reward |-> FALSE, penalty |-> FALSE, owner |-> 0, pos |-> <<40, 40>>],
                [home |-> FALSE, reward |-> FALSE, penalty |-> FALSE, owner |-> 0, pos |-> <<101, 40>>] >>

PlayerColors == {"RED", "BLUE"}

\* Board.get_cell_position(index): the pixel position of the cell
get_cell_position(b, position) == b[position + 1].pos

\* AnimationManager.get_animated_player_position(player_id, board): the
\* interpolated position of this frame, held by the snapshot
get_animated_player_position(am, player_id, b) == am.animated_pos

offset_x(i) == (i % 2) * 15 - 7

\* a row stagger computed with % in place of //
offset_y_mod(i) == (i % 2) * 15 - 7

offset_y(i) == (i \div 2) * 15 - 7

\* renderer.py:100 and :110, the same test twice
is_moving(am, i) == am.player_moving /\ am.moving_player_id = i

\* renderer.py:100-103: the collaborator asked for the position of list index i
position_call(am, i, player) ==
    IF is_moving(am, i)
    THEN [fn |-> "get_animated_player_position", arg |-> i]
    ELSE [fn |-> "get_cell_position", arg |-> player.position]

player_pos(am, b, i, player) ==
    IF is_moving(am, i)
    THEN get_animated_player_position(am, i, b)
    ELSE get_cell_position(b, player.position)

circle(color, center, radius, width, i) ==
    [op |-> "circle", color |-> color, center |-> center, radius |-> radius,
     width |-> width, who |-> i]

\* the highlight ring drawn after the token instead of before it
render_player_ring_last(am, b, i, player) ==
    LET pos == player_pos(am, b, i, player)
        center == <<pos[1] + offset_x(i), pos[2] + offset_y(i)>>
        ring == IF is_moving(am, i) THEN << circle("GOLD", center, 12, 2, i) >> ELSE <<>>
    IN << circle(player.color, center, 8, 0, i), circle("BLACK", center, 8, 2, i) >> \o ring

\* the draw commands of one loop iteration, renderer.py:105-118; `who` is the
\* list index of the iteration that emitted the command
render_player(am, b, i, player) ==
    LET pos == player_pos(am, b, i, player)
        center == <<pos[1] + offset_x(i), pos[2] + offset_y(i)>>
        ring == IF is_moving(am, i) THEN << circle("GOLD", center, 12, 2, i) >> ELSE <<>>
    IN ring \o << circle(player.color, center, 8, 0, i), circle("BLACK", center, 8, 2, i) >>

RECURSIVE players_loop(_, _, _, _, _, _)
players_loop(ps, b, am, i, out, reads) ==
    IF i >= Len(ps) THEN [screen |-> out, calls |-> reads]
    ELSE players_loop(ps, b, am, i + 1,
                      out \o render_player(am, b, i, ps[i + 1]),
                      Append(reads, position_call(am, i, ps[i + 1])))

draw_players(ps, b, am) == players_loop(ps, b, am, 0, <<>>, <<>>)

----------------------------------------------------------------------------
(* draw_ui *)

\* hasattr(game_logic, 'is_local_player_turn')
is_network_game(gl) == gl.networked

\* hasattr(player, 'name')
hasattr_name(player) == player.name # NoAttr

get_player_type_name(player) == player.type_name

\* GameLogic.get_current_player(): the player of the current slot
get_current_player(gl, ps) == ps[gl.current_player + 1]

is_game_over(gl) == gl.game_over

is_local_player_turn(gl) == gl.local_turn

\* the stored name shown without asking whether the session is networked
shown_name_any_session(gl, player, nick) ==
    IF hasattr_name(player) /\ player.name # nick
    THEN player.name
    ELSE nick

\* renderer.py:141-146 and :196-201: the name between the parentheses
shown_name(gl, player, nick) ==
    IF is_network_game(gl) /\ hasattr_name(player) /\ player.name # nick
    THEN player.name
    ELSE nick

\* the text before ": <money>" of a panel line, renderer.py:138-149
panel_who(gl, i, player, nick) ==
    IF ~player.is_ai
    THEN [type |-> "Player", num |-> i + 1, name |-> shown_name(gl, player, nick), paren |-> TRUE]
    ELSE [type |-> get_player_type_name(player), num |-> i + 1, name |-> NoAttr, paren |-> FALSE]

\* renderer.py:152-158
is_local_player(gl, i, player) ==
    IF gl.networked /\ gl.has_slot
    THEN i = gl.player_slot
    ELSE ~player.is_ai

panel_line(gl, i, player, nick) ==
    [op |-> "text",
     text |-> [k |-> "panel", who |-> panel_who(gl, i, player, nick), money |-> player.money,
               you |-> is_local_player(gl, i, player),
               current |-> (i = gl.current_player)],
     color |-> IF i # gl.current_player THEN "BLACK" ELSE "RED",
     at |-> <<10, 10 + 30 * i>>]

RECURSIVE panel_loop(_, _, _, _, _)
panel_loop(gl, ps, nick, i, out) ==
    IF i >= Len(ps) THEN out
    ELSE panel_loop(gl, ps, nick, i + 1, Append(out, panel_line(gl, i, ps[i + 1], nick)))

\* renderer.py:171-181; y is y_offset after the panel loop
dice_lines(gl, y) ==
    LET y2 == IF gl.dice_result > 0 THEN y + 25 ELSE y
        move == IF gl.dice_result > 0
                THEN << [op |-> "text", text |-> [k |-> "dice", n |-> gl.dice_result],
                         color |-> "BLACK", at |-> <<10, y + 20>>] >>
                ELSE <<>>
        effect == IF gl.effect_dice_result > 0
                  THEN << [op |-> "text", text |-> [k |-> "effect_dice", n |-> gl.effect_dice_result],
                           color |-> "BLACK", at |-> <<10, y2 + 20>>] >>
                  ELSE <<>>
    IN move \o effect

message_line(gl) ==
    [op |-> "text", text |-> [k |-> "message", s |-> gl.message], color |-> "BLACK",
     at |-> <<10, WINDOW_HEIGHT - 80>>]

\* renderer.py:191-204
current_player_name(gl, ps, nick) ==
    LET current_player == get_current_player(gl, ps)
    IN IF ~current_player.is_ai
       THEN [type |-> "Player", num |-> current_player.id + 1,
             name |-> shown_name(gl, current_player, nick), paren |-> TRUE]
       ELSE [type |-> get_player_type_name(current_player), num |-> current_player.id + 1,
             name |-> NoAttr, paren |-> FALSE]

\* renderer.py:206-217
status_line(gl, ps, nick) ==
    [op |-> "text",
     text |-> [k |-> "status", who |-> current_player_name(gl, ps, nick),
               waiting |-> gl.waiting_for_effect_dice],
     color |-> IF gl.waiting_for_effect_dice THEN "GOLD" ELSE "BLACK",
     at |-> <<WINDOW_WIDTH \div 2, WINDOW_HEIGHT - 40>>]

\* a local session that shows the button on an AI turn too
should_show_button_ai_turn(gl, ps) ==
    IF is_network_game(gl)
    THEN is_local_player_turn(gl)
    ELSE TRUE

\* renderer.py:221-229
should_show_button(gl, ps) ==
    IF is_network_game(gl)
    THEN is_local_player_turn(gl)
    ELSE ~get_current_player(gl, ps).is_ai

\* the effect-die branch tested before the game-over branch
button_kind_effect_first(gl, ps) ==
    IF gl.waiting_for_effect_dice /\ should_show_button(gl, ps) THEN "roll_effect_dice"
    ELSE IF is_game_over(gl) THEN "restart"
    ELSE IF should_show_button(gl, ps) THEN "roll_dice"
    ELSE "none"

\* renderer.py:231-265: which branch draws
button_kind(gl, ps) ==
    IF is_game_over(gl) THEN "restart"
    ELSE IF gl.waiting_for_effect_dice /\ should_show_button(gl, ps) THEN "roll_effect_dice"
    ELSE IF should_show_button(gl, ps) THEN "roll_dice"
    ELSE "none"

button_color(kind) ==
    IF kind = "restart" THEN "GREEN"
    ELSE IF kind = "roll_effect_dice" THEN "GOLD"
    ELSE "LIGHT_BLUE"

\* renderer.py:237, :248, :259: the text on the button. The effect-die button
\* and the roll-die button carry the same text; only the fill colour differs.
button_label(kind) ==
    IF kind = "restart" THEN "restart" ELSE "roll_dice"

button_rect == <<WINDOW_WIDTH - 150, WINDOW_HEIGHT - 60, 120, 40>>

button_commands(kind) ==
    IF kind = "none" THEN <<>>
    ELSE << [op |-> "rect", color |-> button_color(kind), rect |-> button_rect, width |-> 0],
            [op |-> "rect", color |-> "BLACK", rect |-> button_rect, width |-> 2],
            [op |-> "text", text |-> [k |-> "button", s |-> button_label(kind)], color |-> "BLACK",
             at |-> <<button_rect[1] + 60, button_rect[2] + 20>>] >>

draw_ui(gl, ps, nick) ==
    LET panel == panel_loop(gl, ps, nick, 0, <<>>)
        kind == button_kind(gl, ps)
    IN [screen |-> panel \o dice_lines(gl, 10 + 30 * Len(ps))
                    \o << message_line(gl), status_line(gl, ps, nick) >>
                    \o button_commands(kind),
        ret |-> IF kind = "none" THEN None ELSE button_rect]

----------------------------------------------------------------------------
DefaultAnim == [player_moving |-> FALSE, moving_player_id |-> 0, animated_pos |-> <<70, 55>>]

DefaultGL == [networked |-> FALSE, has_slot |-> FALSE, player_slot |-> 0, local_turn |-> FALSE,
              current_player |-> 0, waiting_for_effect_dice |-> FALSE, game_over |-> FALSE,
              dice_result |-> 0, effect_dice_result |-> 0, message |-> "msg"]

InitOut == /\ screen = <<>>
           /\ calls = <<>>
           /\ ret = None
           /\ raised = FALSE
           /\ last = "none"

InitBoard == /\ board \in Boards
             /\ players = <<>>
             /\ animation_manager = DefaultAnim
             /\ game_logic = DefaultGL
             /\ nickname = "Ann"
             /\ InitOut

DrawBoard == /\ last = "none"
             /\ LET r == draw_board(board)
                IN /\ screen' = r.screen
                   /\ raised' = r.raised
             /\ calls' = <<>>
             /\ ret' = None
             /\ last' = "draw_board"
             /\ UNCHANGED inputs

NextBoard == DrawBoard

SpecBoard == InitBoard /\ [][NextBoard]_vars

----------------------------------------------------------------------------
TokenPlayers == [id : 0..MaxId, is_ai : {FALSE}, name : {NoAttr}, type_name : {"Player"},
                 money : {0}, position : 0..(Len(PlayBoard) - 1), color : PlayerColors]

Animations == {DefaultAnim}
              \cup [player_moving : {TRUE}, moving_player_id : 0..(MaxPlayers - 1),
                    animated_pos : {<<70, 55>>}]

InitPlayers == /\ board = PlayBoard
               /\ players \in SeqsUpTo(TokenPlayers, MaxPlayers)
               /\ animation_manager \in Animations
               /\ game_logic = DefaultGL
               /\ nickname = "Ann"
               /\ InitOut

DrawPlayers == /\ last = "none"
               /\ LET r == draw_players(players, board, animation_manager)
                  IN /\ screen' = r.screen
                     /\ calls' = r.calls
               /\ raised' = FALSE
               /\ ret' = None
               /\ last' = "draw_players"
               /\ UNCHANGED inputs

NextPlayers == DrawPlayers

SpecPlayers == InitPlayers /\ [][NextPlayers]_vars

----------------------------------------------------------------------------
Names == {NoAttr, "Ann", "Bob"}

\* config_manager.get_nickname()
Nicknames == {"Ann", "Bob"}

PanelPlayers == [id : 0..MaxId, is_ai : {FALSE}, name : Names, type_name : {"Player"},
                 money : {150}, position : {0}, color : {"RED"}]
                \cup [id : 0..MaxId, is_ai : {TRUE}, name : {NoAttr}, type_name : {"AI"},
                      money : {150}, position : {0}, color : {"BLUE"}]

\* a local session has neither is_local_player_turn nor player_slot; a networked
\* one has is_local_player_turn and may have player_slot
Sessions == [networked : {FALSE}, has_slot : {FALSE}, player_slot : {0}, local_turn : {FALSE}]
            \cup [networked : {TRUE}, has_slot : {FALSE}, player_slot : {0}, local_turn : BOOLEAN]
            \cup [networked : {TRUE}, has_slot : {TRUE}, player_slot : 0..(MaxUIPlayers - 1),
                  local_turn : BOOLEAN]

GameLogics(n) ==
    {[networked |-> s.networked, has_slot |-> s.has_slot, player_slot |-> s.player_slot,
      local_turn |-> s.local_turn, current_player |-> c, waiting_for_effect_dice |-> w,
      game_over |-> o, dice_result |-> d, effect_dice_result |-> e, message |-> "msg"] :
        s \in Sessions, c \in 0..(n - 1), w \in BOOLEAN, o \in BOOLEAN,
        d \in {0, 3}, e \in {0, 2}}

InitUI == /\ board = <<>>
          /\ players \in SeqsUpTo(PanelPlayers, MaxUIPlayers) \ {<<>>}
          /\ animation_manager = DefaultAnim
          /\ game_logic \in GameLogics(Len(players))
          /\ nickname \in Nicknames
          /\ InitOut

DrawUI == /\ last = "none"
          /\ LET r == draw_ui(game_logic, players, nickname)
             IN /\ screen' = r.screen
                /\ ret' = r.ret
          /\ calls' = <<>>
          /\ raised' = FALSE
          /\ last' = "draw_ui"
          /\ UNCHANGED inputs

NextUI == DrawUI

SpecUI == InitUI /\ [][NextUI]_vars

----------------------------------------------------------------------------
(* Properties of draw_ui, checked under SpecUI *)

UIDrawn == last = "draw_ui"

CurrentIsAI == players[game_logic.current_player + 1].is_ai

\* the viewer may act: is_local_player_turn() in a networked session, the
\* current player not being an AI otherwise
Authorized == IF game_logic.networked THEN game_logic.local_turn ELSE ~CurrentIsAI

ButtonFills == {k \in 1..Len(screen) : screen[k].op = "rect" /\ screen[k].width = 0}

ButtonLabels == {k \in 1..Len(screen) : screen[k].op = "text" /\ screen[k].text.k = "button"}

OneButton(color, label) ==
    /\ Cardinality(ButtonFills) = 1
    /\ Cardinality(ButtonLabels) = 1
    /\ \A k \in ButtonFills : screen[k].color = color
    /\ \A k \in ButtonLabels : screen[k].text.s = label
    /\ ret # None
    /\ \A k \in ButtonFills : screen[k].rect = ret

NoButton == ButtonFills = {} /\ ButtonLabels = {} /\ ret = None

\* C1: the button follows the priority game over > waiting for the effect die
\* and authorized > authorized > none; at most one button is drawn and a
\* rectangle is returned exactly when one was drawn. The effect-die button is
\* told from the roll-die button by its fill (GOLD, LIGHT_BLUE): both carry
\* the same text.
C1_ButtonPriority ==
    UIDrawn =>
        /\ game_logic.game_over => OneButton("GREEN", "restart")
        /\ (~game_logic.game_over /\ game_logic.waiting_for_effect_dice /\ Authorized)
               => OneButton("GOLD", "roll_dice")
        /\ (~game_logic.game_over /\ ~game_logic.waiting_for_effect_dice /\ Authorized)
               => OneButton("LIGHT_BLUE", "roll_dice")
        /\ (~game_logic.game_over /\ ~Authorized) => NoButton
        /\ Cardinality(ButtonFills) <= 1
        /\ (ret # None) <=> (ButtonFills # {})

C1_Witness ==
    /\ UIDrawn
    /\ game_logic.game_over /\ game_logic.waiting_for_effect_dice /\ ~Authorized
    /\ OneButton("GREEN", "restart")

\* C2 as stated: no button whenever the game is in progress, no effect die is
\* awaited and the current player is an AI, networked or not, whatever
\* is_local_player_turn() reports.
C2_NoButtonOnAITurn_Original ==
    (UIDrawn /\ ~game_logic.game_over /\ ~game_logic.waiting_for_effect_dice /\ CurrentIsAI)
        => ret = None

\* C2 amended: with the game in progress, no effect die awaited and an AI as
\* current player, a local session returns no button, and a networked session
\* returns no button exactly when is_local_player_turn() reports false.
C2_NoButtonOnAITurn ==
    (UIDrawn /\ ~game_logic.game_over /\ ~game_logic.waiting_for_effect_dice /\ CurrentIsAI)
        => /\ ~game_logic.networked => NoButton
           /\ game_logic.networked => (NoButton <=> ~game_logic.local_turn)
           /\ game_logic.networked => (OneButton("LIGHT_BLUE", "roll_dice") <=> game_logic.local_turn)

C2_Witness ==
    /\ UIDrawn /\ ~game_logic.game_over /\ ~game_logic.waiting_for_effect_dice /\ CurrentIsAI
    /\ ~game_logic.networked
    /\ NoButton

PanelLine(i) == screen[i + 1]

Slots == 0..(Len(players) - 1)

FirstHuman(i) == ~players[i + 1].is_ai /\ \A j \in 0..(i - 1) : players[j + 1].is_ai

\* C4: a local session puts the "[You] " prefix on the first non-AI player in
\* list order and on no other slot; a networked session puts it on exactly the
\* slot whose index is game_logic.player_slot.
C4_YouPrefix ==
    UIDrawn =>
        /\ ~game_logic.networked => \A i \in Slots : PanelLine(i).text.you <=> FirstHuman(i)
        /\ (game_logic.networked /\ game_logic.has_slot)
               => \A i \in Slots : PanelLine(i).text.you <=> (i = game_logic.player_slot)

ExpectedName(player) ==
    IF game_logic.networked /\ player.name # NoAttr /\ player.name # nickname
    THEN player.name
    ELSE nickname

\* C5: a human slot shows the stored name exactly when the session is networked,
\* the player has a stored name and it differs from the configured nickname, and
\* the configured nickname otherwise; an AI slot shows <AI-type-name><i+1> and
\* no nickname.
C5_PanelNames ==
    UIDrawn =>
        \A i \in Slots :
            LET who == PanelLine(i).text.who
                player == players[i + 1]
            IN /\ who.num = i + 1
               /\ ~player.is_ai => who.paren /\ who.name = ExpectedName(player)
               /\ player.is_ai => ~who.paren /\ who.name = NoAttr /\ who.type = player.type_name

C5_Witness ==
    /\ UIDrawn /\ game_logic.networked /\ Len(players) >= 2 /\ nickname = "Ann"
    /\ ~players[1].is_ai /\ players[1].name = "Bob" /\ PanelLine(0).text.who.name = "Bob"
    /\ ~players[2].is_ai /\ players[2].name = nickname /\ PanelLine(1).text.who.name = nickname

StatusLines == {k \in 1..Len(screen) : screen[k].op = "text" /\ screen[k].text.k = "status"}

\* C9: the bottom status line names the same player number and the same name
\* (or AI type name) as the panel line of slot game_logic.current_player, also
\* when the current player's id differs from that slot index.
C9_StatusMatchesPanel ==
    UIDrawn =>
        /\ Cardinality(StatusLines) = 1
        /\ \A k \in StatusLines :
               screen[k].text.who = PanelLine(game_logic.current_player).text.who

----------------------------------------------------------------------------
(* Properties of draw_players, checked under SpecPlayers *)

PlayersDrawn == last = "draw_players"

Indices == 0..(Len(players) - 1)

\* C3: with player_moving true for player id P, the player whose id is P is
\* read from the animation snapshot and every other player from the static
\* lookup of its cell; with player_moving false every player is read from the
\* static lookup. The player list may hold ids that differ from list indices.
C3_AnimationById ==
    PlayersDrawn =>
        /\ Len(calls) = Len(players)
        /\ \A i \in Indices :
               IF animation_manager.player_moving
                  /\ players[i + 1].id = animation_manager.moving_player_id
               THEN calls[i + 1].fn = "get_animated_player_position"
               ELSE calls[i + 1] = [fn |-> "get_cell_position", arg |-> players[i + 1].position]

Tokens(i) == {k \in 1..Len(screen) : screen[k].who = i /\ screen[k].radius = 8 /\ screen[k].width = 0}

Outlines(i) == {k \in 1..Len(screen) : screen[k].who = i /\ screen[k].radius = 8 /\ screen[k].width = 2}

Rings(i) == {k \in 1..Len(screen) : screen[k].who = i /\ screen[k].radius = 12}

AllRings == {k \in 1..Len(screen) : screen[k].radius = 12}

\* the position the renderer was given for list index i
GivenPos(i) ==
    IF calls[i + 1].fn = "get_cell_position"
    THEN board[calls[i + 1].arg + 1].pos
    ELSE animation_manager.animated_pos

TokenOffset(i, k) ==
    <<screen[k].center[1] - GivenPos(i)[1], screen[k].center[2] - GivenPos(i)[2]>>

\* C8: the offset of a token depends only on the list index i, as
\* ((i % 2) * 15 - 7, (i // 2) * 15 - 7); two indices never share an offset, so
\* two players standing on the same cell are never drawn at the same centre.
C8_DistinctOffsets ==
    PlayersDrawn =>
        /\ \A i \in Indices : \A k \in Tokens(i) :
               TokenOffset(i, k) = <<(i % 2) * 15 - 7, (i \div 2) * 15 - 7>>
        /\ \A i, j \in Indices : \A k \in Tokens(i) : \A m \in Tokens(j) :
               i # j => /\ TokenOffset(i, k) # TokenOffset(j, m)
                        /\ (/\ calls[i + 1].fn = "get_cell_position"
                            /\ calls[j + 1].fn = "get_cell_position"
                            /\ players[i + 1].position = players[j + 1].position)
                               => screen[k].center # screen[m].center

C8_Witness ==
    /\ PlayersDrawn /\ Len(players) = MaxPlayers /\ ~animation_manager.player_moving
    /\ \A i \in Indices : players[i + 1].position = 0 /\ Tokens(i) # {}
    /\ \A i, j \in Indices : \A k \in Tokens(i) : \A m \in Tokens(j) :
           i # j => screen[k].center # screen[m].center

\* C10: commands come in player-list order; within one player the ring comes
\* before the filled token and the black outline, at the token's centre; a ring
\* is drawn for at most one player, the one flagged as moving, and for none
\* when player_moving is false.
C10_DrawOrder ==
    PlayersDrawn =>
        /\ \A a, b \in 1..Len(screen) : a < b => screen[a].who <= screen[b].who
        /\ \A k \in 1..Len(screen) : screen[k].who \in Indices
        /\ \A i \in Indices :
               /\ Cardinality(Tokens(i)) = 1
               /\ Cardinality(Outlines(i)) = 1
               /\ \A t \in Tokens(i) :
                      /\ screen[t].color = players[i + 1].color
                      /\ \A o \in Outlines(i) :
                             t < o /\ screen[o].color = "BLACK" /\ screen[o].center = screen[t].center
                      /\ \A r \in Rings(i) : r < t /\ screen[r].center = screen[t].center
               /\ (Rings(i) # {}) <=>
                      (animation_manager.player_moving /\ animation_manager.moving_player_id = i)
        /\ Cardinality(AllRings) <= 1
        /\ ~animation_manager.player_moving => AllRings = {}

C10_Witness ==
    /\ PlayersDrawn /\ Len(players) = MaxPlayers
    /\ animation_manager.player_moving /\ animation_manager.moving_player_id = 1
    /\ Cardinality(AllRings) = 1 /\ Rings(1) # {}

----------------------------------------------------------------------------
(* Properties of draw_board, checked under SpecBoard *)

BoardDrawn == last = "draw_board"

CellIndices == 0..(Len(board) - 1)

Fills == {k \in 1..Len(screen) : screen[k].op = "fill"}

\* C6: a board of N cells is cleared once and then rendered as exactly N cells
\* in increasing index order, cell i as a square of side CELL_SIZE centred on
\* cell_positions[i] and labelled i; an empty board renders no cell; no error.
C6_BoardRenders ==
    BoardDrawn =>
        /\ ~raised
        /\ Fills = {1}
        /\ Len(screen) = 1 + 4 * Len(board)
        /\ \A i \in CellIndices :
               LET x == board[i + 1].pos[1]
                   y == board[i + 1].pos[2]
                   sq == <<x - (CELL_SIZE \div 2), y - (CELL_SIZE \div 2), CELL_SIZE, CELL_SIZE>>
               IN /\ screen[4 * i + 2].op = "rect" /\ screen[4 * i + 2].rect = sq
                  /\ screen[4 * i + 3].op = "rect" /\ screen[4 * i + 3].rect = sq
                  /\ screen[4 * i + 4].op = "text" /\ screen[4 * i + 4].text = [k |-> "index", n |-> i]

RoleOf(cell) ==
    IF cell.home THEN "home"
    ELSE IF cell.reward THEN "reward"
    ELSE IF cell.penalty THEN "penalty"
    ELSE "plain"

HomeColorSet == {HomeColorNames[n] : n \in 1..Len(HomeColorNames)}

\* C7: every cell is drawn, whatever its state and whatever owner a home cell
\* holds; the fill colour is one of HOME_COLORS[owner], REWARD_COLOR,
\* DISCARD_COLOR, GRAY with precedence home > reward > penalty > plain, and the
\* type label is chosen by the same precedence.
C7_CellPresentation ==
    BoardDrawn =>
        /\ ~raised
        /\ \A i \in CellIndices :
               LET cell == board[i + 1]
                   color == screen[4 * i + 2].color
                   label == screen[4 * i + 5].text.k
               IN /\ color \in HomeColorSet \cup {"REWARD_COLOR", "DISCARD_COLOR", "GRAY"}
                  /\ RoleOf(cell) = "home" => color \in HomeColorSet /\ label = "H"
                  /\ RoleOf(cell) = "reward" => color = "REWARD_COLOR" /\ label = "reward"
                  /\ RoleOf(cell) = "penalty" => color = "DISCARD_COLOR" /\ label = "discard"
                  /\ RoleOf(cell) = "plain" => color = "GRAY" /\ label = "plain"

====
